---- MODULE Spec2Model ----
(***************************************************************************)
(* The drive browser of Frontend/src/FileBrowser.tsx as a state machine:   *)
(* the local DriveState held by the FileBrowser component, its navigation  *)
(* and selection state, the handlers that mutate it, and the Sync Gateway  *)
(* (api.tsx) with the remote calls that are in flight.                      *)
(*                                                                         *)
(* Ids are positive integers; NULL (0) stands for null.  selectedIds is an *)
(* array in the source that is only read through includes() and length and *)
(* only filtered by value, so it is kept as a set.                         *)
(***************************************************************************)
EXTENDS Integers, Sequences, FiniteSets, TLC

VARIABLES
  state,            \* DriveState | null                      (FileBrowser.tsx:36)
  section,          \* "my-drive" | "starred" | "shared" | "trash"        (:37)
  currentFolderId,  \* number | null                                      (:38)
  selectedIds,      \* ItemId[]                                           (:44)
  loading,          \* boolean                                            (:47)
  sortBy,           \* "name" | "modifiedAt"                                (:41)
  sortDir,          \* "asc" | "desc"                                       (:42)
  search,           \* string                                              (:43)
  server,           \* the Sync Gateway's store
  calls,            \* awaited remote calls in flight
  net,              \* fire-and-forget remote calls in flight
  issued,           \* history: how many awaited calls the handlers have started
  lastOp,           \* history: the handler that ran in the last step
  trashSnap         \* history: the DriveState before the last moveToTrash

vars == <<state, section, currentFolderId, selectedIds, loading,
          sortBy, sortDir, search,
          server, calls, net, issued, lastOp, trashSnap>>

viewVars == <<sortBy, sortDir, search>>

NULL == 0

\* Bounds of the model.
MaxFolderId == 4      \* the gateway hands out folder ids up to this one
MaxFileId == 2        \* the gateway hands out file ids up to this one
MaxCalls == 2         \* awaited remote calls in flight at once
MaxIssued == 2        \* awaited remote calls the handlers start in one run
MaxNet == 1           \* handlers with fire-and-forget calls in flight at once

Sections == {"my-drive", "starred", "shared", "trash"}

\* a ?? b
Coalesce(a, b) == IF a # NULL THEN a ELSE b

\* arr.map(x => x.id) as a set
Ids(arr) == {arr[i].id : i \in DOMAIN arr}

\* arr.find(x => x.id === id); callers guard with Has
Find(arr, id) == arr[CHOOSE i \in DOMAIN arr :
                       /\ arr[i].id = id
                       /\ \A j \in DOMAIN arr : arr[j].id = id => i <= j]

Has(arr, id) == \E i \in DOMAIN arr : arr[i].id = id

Folder(id, name, parentId) ==
  [id |-> id, name |-> name, parentId |-> parentId,
   trashed |-> FALSE, originalParentId |-> NULL]

File(id, name, parentId) ==
  [id |-> id, name |-> name, parentId |-> parentId,
   starred |-> FALSE, isShared |-> FALSE,
   trashed |-> FALSE, originalParentId |-> NULL, modifiedAt |-> <<1>>]

NoState == [loaded |-> FALSE, rootFolderId |-> NULL,
            folders |-> <<>>, files |-> <<>>]

----------------------------------------------------------------------------
(* Strings are lists of characters.                                        *)

RECURSIVE TrimStart(_)
TrimStart(str) ==
  IF str # <<>> /\ Head(str) = " " THEN TrimStart(Tail(str)) ELSE str

RECURSIVE TrimEnd(_)
TrimEnd(str) ==
  IF str # <<>> /\ str[Len(str)] = " "
  THEN TrimEnd(SubSeq(str, 1, Len(str) - 1)) ELSE str

\* str.trim()
Trim(str) == TrimEnd(TrimStart(str))

\* the UTF-16 code unit of a character
CharCode ==
  (" " :> 32) @@ ("A" :> 65) @@ ("B" :> 66) @@ ("a" :> 97) @@ ("b" :> 98) @@
  ("d" :> 100) @@ ("n" :> 110) @@ ("p" :> 112) @@ ("r" :> 114) @@
  ("s" :> 115) @@ ("t" :> 116) @@ ("u" :> 117)

\* str.toLowerCase()
toLowerCase(str) ==
  [i \in DOMAIN str |-> IF str[i] = "A" THEN "a"
                        ELSE IF str[i] = "B" THEN "b" ELSE str[i]]

\* aStr < bStr on strings: by code units, a proper prefix first
StrLess(aStr, bStr) ==
  \E k \in 1..Len(bStr) :
     /\ \A i \in 1..(k - 1) : i <= Len(aStr) /\ aStr[i] = bStr[i]
     /\ \/ k > Len(aStr)
        \/ CharCode[aStr[k]] < CharCode[bStr[k]]

\* str.includes(q)
includes(str, q) ==
  \E i \in 0..(Len(str) - Len(q)) : SubSeq(str, i + 1, i + Len(q)) = q

\* new Date(modifiedAt).getTime(): a timestamp is its list of decimal digits
RECURSIVE getTime(_)
getTime(modifiedAt) ==
  IF modifiedAt = <<>> THEN 0
  ELSE 10 * getTime(SubSeq(modifiedAt, 1, Len(modifiedAt) - 1))
       + modifiedAt[Len(modifiedAt)]

----------------------------------------------------------------------------
(* Derived values of the component.                                        *)

folders == state.folders
files == state.files
rootFolderId == state.rootFolderId

currentFolder ==
  IF section = "my-drive" /\ Has(folders, currentFolderId)
  THEN Find(folders, currentFolderId) ELSE NULL

visibleFolders ==
  IF section = "my-drive"
  THEN SelectSeq(folders, LAMBDA f : ~f.trashed /\ f.parentId = currentFolderId)
  ELSE IF section = "trash"
  THEN SelectSeq(folders, LAMBDA f : f.trashed)
  ELSE <<>>

\* a section filter that lists starred and shared files of the trash too
sectionFilesWithTrashed ==
  IF section = "my-drive"
  THEN SelectSeq(files, LAMBDA f : ~f.trashed /\ f.parentId = currentFolderId)
  ELSE IF section = "starred"
  THEN SelectSeq(files, LAMBDA f : f.starred)
  ELSE IF section = "shared"
  THEN SelectSeq(files, LAMBDA f : f.isShared)
  ELSE SelectSeq(files, LAMBDA f : f.trashed)

\* the section filter of visibleFiles
sectionFiles ==
  IF section = "my-drive"
  THEN SelectSeq(files, LAMBDA f : ~f.trashed /\ f.parentId = currentFolderId)
  ELSE IF section = "starred"
  THEN SelectSeq(files, LAMBDA f : f.starred /\ ~f.trashed)
  ELSE IF section = "shared"
  THEN SelectSeq(files, LAMBDA f : f.isShared /\ ~f.trashed)
  ELSE SelectSeq(files, LAMBDA f : f.trashed)

\* the search filter of visibleFiles
searchFilter(list) ==
  IF Trim(search) # <<>>
  THEN LET q == toLowerCase(Trim(search)) IN
       SelectSeq(list, LAMBDA item : includes(toLowerCase(item.name), q))
  ELSE list

\* the comparator handed to sort
compare(a, b) ==
  IF sortBy = "name"
  THEN LET aStr == toLowerCase(a.name)
           bStr == toLowerCase(b.name) IN
       IF StrLess(aStr, bStr) THEN (IF sortDir = "asc" THEN -1 ELSE 1)
       ELSE IF StrLess(bStr, aStr) THEN (IF sortDir = "asc" THEN 1 ELSE -1)
       ELSE 0
  ELSE LET aDate == getTime(a.modifiedAt)
           bDate == getTime(b.modifiedAt) IN
       IF aDate < bDate THEN (IF sortDir = "asc" THEN -1 ELSE 1)
       ELSE IF aDate > bDate THEN (IF sortDir = "asc" THEN 1 ELSE -1)
       ELSE 0

\* a sort that is not stable: x goes in front of the elements it ties with
insertSortedBeforeTies(list, x) ==
  LET n == Cardinality({i \in DOMAIN list : compare(list[i], x) < 0}) IN
  SubSeq(list, 1, n) \o <<x>> \o SubSeq(list, n + 1, Len(list))

\* Array.prototype.sort is stable: x goes behind every element that does
\* not compare greater than it
insertSorted(list, x) ==
  LET n == Cardinality({i \in DOMAIN list : compare(list[i], x) <= 0}) IN
  SubSeq(list, 1, n) \o <<x>> \o SubSeq(list, n + 1, Len(list))

RECURSIVE sort(_)
sort(list) ==
  IF list = <<>> THEN <<>>
  ELSE insertSorted(sort(SubSeq(list, 1, Len(list) - 1)), list[Len(list)])

visibleFiles == sort(searchFilter(sectionFiles))

hasTrash ==
  \/ \E i \in DOMAIN folders : folders[i].trashed
  \/ \E i \in DOMAIN files : files[i].trashed

----------------------------------------------------------------------------
(* The cascades.  An accumulator carries the two id sets of the handler    *)
(* and the list of folder ids on which the recursive helper was called.   *)

EmptyAcc == [folderIds |-> {}, fileIds |-> {}, expanded |-> <<>>]

\* collectChildren of handleMoveToTrashSelected, from index i of st.folders on
RECURSIVE collectChildrenTrash(_, _, _, _)
collectChildrenTrash(st, folderId, i, acc) ==
  IF i > Len(st.folders)
  THEN [acc EXCEPT !.fileIds = @ \cup
          {st.files[k].id : k \in {k \in DOMAIN st.files :
              ~st.files[k].trashed /\ st.files[k].parentId = folderId}}]
  ELSE LET f == st.folders[i] IN
       IF ~f.trashed /\ f.parentId = folderId /\ f.id \notin acc.folderIds
       THEN collectChildrenTrash(st, folderId, i + 1,
              collectChildrenTrash(st, f.id, 1,
                [acc EXCEPT !.folderIds = @ \cup {f.id},
                            !.expanded = Append(@, f.id)]))
       ELSE collectChildrenTrash(st, folderId, i + 1, acc)

\* Array.from(folderIds).forEach(collectChildren): the ids of initial in the
\* order in which the first loop inserted them
RECURSIVE trashRoots(_, _, _, _, _)
trashRoots(st, initial, i, seen, acc) ==
  IF i > Len(st.folders) THEN acc
  ELSE LET id == st.folders[i].id IN
       IF id \in initial /\ id \notin seen
       THEN trashRoots(st, initial, i + 1, seen \cup {id},
              collectChildrenTrash(st, id, 1,
                [acc EXCEPT !.expanded = Append(@, id)]))
       ELSE trashRoots(st, initial, i + 1, seen, acc)

\* trashSets without the cascade: only what is selected
trashSetsSelectedOnly(st, sel) ==
  [folderIds |-> {st.folders[i].id : i \in {i \in DOMAIN st.folders :
                    ~st.folders[i].trashed /\ st.folders[i].id \in sel}},
   fileIds |-> {st.files[i].id : i \in {i \in DOMAIN st.files :
                    ~st.files[i].trashed /\ st.files[i].id \in sel}},
   expanded |-> <<>>]

\* folderIds and fileIds of handleMoveToTrashSelected
trashSets(st, sel) ==
  LET initFolders == {st.folders[i].id : i \in {i \in DOMAIN st.folders :
                        ~st.folders[i].trashed /\ st.folders[i].id \in sel}}
      initFiles == {st.files[i].id : i \in {i \in DOMAIN st.files :
                        ~st.files[i].trashed /\ st.files[i].id \in sel}}
  IN trashRoots(st, initFolders, 1, {},
       [folderIds |-> initFolders, fileIds |-> initFiles, expanded |-> <<>>])

\* trashItem that always records the current parentId
trashItemOverwrites(f) ==
  [f EXCEPT !.trashed = TRUE, !.originalParentId = f.parentId]

\* the setState of handleMoveToTrashSelected
trashItem(f) ==
  [f EXCEPT !.trashed = TRUE,
            !.originalParentId = Coalesce(f.originalParentId, f.parentId)]

applyTrash(st, acc) ==
  [st EXCEPT
     !.folders = [i \in DOMAIN st.folders |->
        IF st.folders[i].id \in acc.folderIds
        THEN trashItem(st.folders[i]) ELSE st.folders[i]],
     !.files = [i \in DOMAIN st.files |->
        IF st.files[i].id \in acc.fileIds
        THEN trashItem(st.files[i]) ELSE st.files[i]]]

\* collectChildren of handleRestoreSelected
RECURSIVE collectChildrenRestore(_, _, _, _)
collectChildrenRestore(st, folderId, i, acc) ==
  IF i > Len(st.folders)
  THEN [acc EXCEPT !.fileIds = @ \cup
          {st.files[k].id : k \in {k \in DOMAIN st.files :
              st.files[k].parentId = folderId /\ st.files[k].trashed}}]
  ELSE LET f == st.folders[i] IN
       IF f.parentId = folderId /\ f.trashed /\ f.id \notin acc.folderIds
       THEN collectChildrenRestore(st, folderId, i + 1,
              collectChildrenRestore(st, f.id, 1,
                [acc EXCEPT !.folderIds = @ \cup {f.id},
                            !.expanded = Append(@, f.id)]))
       ELSE collectChildrenRestore(st, folderId, i + 1, acc)

\* state.folders.forEach(f => { if (f.trashed && selected) { add; collect } })
RECURSIVE restoreRoots(_, _, _, _)
restoreRoots(st, sel, i, acc) ==
  IF i > Len(st.folders) THEN acc
  ELSE LET f == st.folders[i] IN
       IF f.trashed /\ f.id \in sel
       THEN restoreRoots(st, sel, i + 1,
              collectChildrenRestore(st, f.id, 1,
                [acc EXCEPT !.folderIds = @ \cup {f.id},
                            !.expanded = Append(@, f.id)]))
       ELSE restoreRoots(st, sel, i + 1, acc)

\* restoreSets without the cascade: only what is selected
restoreSetsSelectedOnly(st, sel) ==
  [folderIds |-> {st.folders[i].id : i \in {i \in DOMAIN st.folders :
                    st.folders[i].trashed /\ st.folders[i].id \in sel}},
   fileIds |-> {st.files[i].id : i \in {i \in DOMAIN st.files :
                    st.files[i].trashed /\ st.files[i].id \in sel}},
   expanded |-> <<>>]

\* folderIds and fileIds of handleRestoreSelected
restoreSets(st, sel) ==
  LET acc == restoreRoots(st, sel, 1, EmptyAcc)
  IN [acc EXCEPT !.fileIds = @ \cup
        {st.files[i].id : i \in {i \in DOMAIN st.files :
            st.files[i].trashed /\ st.files[i].id \in sel}}]

\* restoreItem that leaves originalParentId as it is
restoreItemKeepsOrigin(f, root) ==
  [f EXCEPT !.trashed = FALSE,
            !.parentId = Coalesce(f.originalParentId, Coalesce(f.parentId, root))]

\* restoreItem that puts every item into the root
restoreItemToRoot(f, root) ==
  [f EXCEPT !.trashed = FALSE, !.parentId = root, !.originalParentId = NULL]

\* the setState of handleRestoreSelected
restoreItem(f, root) ==
  [f EXCEPT !.trashed = FALSE,
            !.parentId = Coalesce(f.originalParentId, Coalesce(f.parentId, root)),
            !.originalParentId = NULL]

applyRestore(st, acc) ==
  [st EXCEPT
     !.folders = [i \in DOMAIN st.folders |->
        IF st.folders[i].id \in acc.folderIds
        THEN restoreItem(st.folders[i], st.rootFolderId) ELSE st.folders[i]],
     !.files = [i \in DOMAIN st.files |->
        IF st.files[i].id \in acc.fileIds
        THEN restoreItem(st.files[i], st.rootFolderId) ELSE st.files[i]]]

\* markFolderAndChildren of handlePermanentDeleteSelected
RECURSIVE markFolderAndChildren(_, _, _, _)
markFolderAndChildren(st, folderId, i, acc) ==
  IF i = 0
  THEN IF folderId \in acc.folderIds THEN acc
       ELSE markFolderAndChildren(st, folderId, 1,
              [acc EXCEPT !.folderIds = @ \cup {folderId},
                          !.expanded = Append(@, folderId)])
  ELSE IF i > Len(st.folders)
  THEN [acc EXCEPT !.fileIds = @ \cup
          {st.files[k].id : k \in {k \in DOMAIN st.files :
              st.files[k].parentId = folderId}}]
  ELSE LET f == st.folders[i] IN
       IF f.parentId = folderId
       THEN markFolderAndChildren(st, folderId, i + 1,
              markFolderAndChildren(st, f.id, 0, acc))
       ELSE markFolderAndChildren(st, folderId, i + 1, acc)

RECURSIVE deleteRoots(_, _, _, _)
deleteRoots(st, sel, i, acc) ==
  IF i > Len(st.folders) THEN acc
  ELSE LET f == st.folders[i] IN
       IF f.id \in sel
       THEN deleteRoots(st, sel, i + 1, markFolderAndChildren(st, f.id, 0, acc))
       ELSE deleteRoots(st, sel, i + 1, acc)

\* deleteSets without markFolderAndChildren: only what is selected
deleteSetsSelectedOnly(st, sel) ==
  [folderIds |-> {st.folders[i].id : i \in {i \in DOMAIN st.folders :
                    st.folders[i].id \in sel}},
   fileIds |-> {st.files[i].id : i \in {i \in DOMAIN st.files :
                    st.files[i].id \in sel}},
   expanded |-> <<>>]

\* foldersToDelete and filesToDelete of handlePermanentDeleteSelected
deleteSets(st, sel) ==
  LET acc == deleteRoots(st, sel, 1, EmptyAcc)
  IN [acc EXCEPT !.fileIds = @ \cup
        {st.files[i].id : i \in {i \in DOMAIN st.files : st.files[i].id \in sel}}]

\* the setState of handlePermanentDeleteSelected
applyDelete(st, acc) ==
  [st EXCEPT
     !.folders = SelectSeq(st.folders, LAMBDA f : f.id \notin acc.folderIds),
     !.files = SelectSeq(st.files, LAMBDA f : f.id \notin acc.fileIds)]

\* the setState of handleEmptyTrash
applyEmptyTrash(st) ==
  [st EXCEPT
     !.folders = SelectSeq(st.folders, LAMBDA f : ~f.trashed),
     !.files = SelectSeq(st.files, LAMBDA f : ~f.trashed)]

----------------------------------------------------------------------------
(* breadcrumb: the while loop of the memo.  It is evaluated on every       *)
(* render; when the parent links it follows come back to a folder already  *)
(* on the chain the loop never ends and the component never renders again. *)

\* folders.find(f => f.id === id && !f.trashed), as an index or 0
FindLive(arr, id) ==
  IF \E i \in DOMAIN arr : arr[i].id = id /\ ~arr[i].trashed
  THEN CHOOSE i \in DOMAIN arr :
         /\ arr[i].id = id /\ ~arr[i].trashed
         /\ \A j \in DOMAIN arr : (arr[j].id = id /\ ~arr[j].trashed) => i <= j
  ELSE 0

RECURSIVE crumbLoop(_, _, _, _)
crumbLoop(arr, folder, result, seenIdx) ==
  LET next == FindLive(arr, folder.parentId) IN
  IF next = 0
  THEN [chain |-> <<folder>> \o result, diverges |-> FALSE]
  ELSE IF next \in seenIdx
  THEN [chain |-> <<folder>> \o result, diverges |-> TRUE]
  ELSE crumbLoop(arr, arr[next], <<folder>> \o result, seenIdx \cup {next})

breadcrumb ==
  IF section # "my-drive" \/ ~Has(folders, currentFolderId)
  THEN [chain |-> <<>>, diverges |-> FALSE]
  ELSE LET start == CHOOSE i \in DOMAIN folders :
                      /\ folders[i].id = currentFolderId
                      /\ \A j \in DOMAIN folders :
                           folders[j].id = currentFolderId => i <= j
       IN crumbLoop(folders, folders[start], <<>>, {start})

\* The component renders its controls only once a state is loaded.
Hung == state.loaded /\ breadcrumb.diverges
Rendered == ~loading /\ state.loaded /\ ~Hung

\* the folder list of the sidebar
sidebarFolders ==
  SelectSeq(folders, LAMBDA f : ~f.trashed /\ f.parentId = rootFolderId)

----------------------------------------------------------------------------
(* Remote calls.                                                            *)

NoRes == [none |-> TRUE]

\* awaited calls carry a tag that tells apart two calls with equal arguments
FreeTags(cs) == {k \in 1..MaxCalls : \A c \in cs : c.tag # k}
Call(cs, kind, arg) ==
  [tag |-> CHOOSE k \in FreeTags(cs) : \A j \in FreeTags(cs) : k <= j,
   kind |-> kind, phase |-> "sent", arg |-> arg, res |-> NoRes]

\* the slot of a handler's fire-and-forget calls: at most MaxNet handlers
\* have such calls in flight
FreeSlots == {k \in 1..MaxNet : \A m \in net : m.slot # k}
Slot == CHOOSE k \in FreeSlots : \A j \in FreeSlots : k <= j

Msg(kind, id, patch) == [slot |-> 0, kind |-> kind, id |-> id, patch |-> patch]
InSlot(msgs, k) == {[m EXCEPT !.slot = k] : m \in msgs}

\* a patch that always sends the current parentId as originalParentId
trashPatchCurrentParent(item) ==
  [trashed |-> TRUE, originalParentId |-> item.parentId]

\* the apiUpdateFolder / apiUpdateFile calls of handleMoveToTrashSelected
trashPatch(item) ==
  [trashed |-> TRUE,
   originalParentId |-> Coalesce(item.originalParentId, item.parentId)]

trashMsgs(st, acc) ==
  {Msg("updateFolder", id, trashPatch(Find(st.folders, id))) :
      id \in {x \in acc.folderIds : Has(st.folders, x)}}
  \cup
  {Msg("updateFile", id, trashPatch(Find(st.files, id))) :
      id \in {x \in acc.fileIds : Has(st.files, x)}}

\* the apiUpdateFolder / apiUpdateFile calls of handleRestoreSelected
restorePatch(item, root) ==
  [trashed |-> FALSE,
   parentId |-> Coalesce(item.originalParentId, Coalesce(item.parentId, root)),
   originalParentId |-> NULL]

restoreMsgs(st, acc) ==
  {Msg("updateFolder", id, restorePatch(Find(st.folders, id), st.rootFolderId)) :
      id \in {x \in acc.folderIds : Has(st.folders, x)}}
  \cup
  {Msg("updateFile", id, restorePatch(Find(st.files, id), st.rootFolderId)) :
      id \in {x \in acc.fileIds : Has(st.files, x)}}

\* the apiDeleteFile / apiDeleteFolder calls of the two delete handlers
deleteMsgs(folderIds, fileIds) ==
  {Msg("deleteFile", id, NoRes) : id \in fileIds}
  \cup {Msg("deleteFolder", id, NoRes) : id \in folderIds}

----------------------------------------------------------------------------
(* The Sync Gateway.  Its implementation is not part of the sources; it is *)
(* modelled from the interface of api.tsx and section 6 of the             *)
(* specification: it stores what it is sent and hands out fresh ids.       *)

\* Names are sequences of characters.
SeedState ==
  [rootFolderId |-> 1,
   folders |-> << Folder(1, <<"r">>, NULL),
                  Folder(2, <<"d">>, 1),
                  Folder(3, <<"s">>, 2) >>,
   files |-> << File(1, <<"a">>, 2) >>,
   nextFolderId |-> 4,
   nextFileId |-> 2]

Seeds == {SeedState}

\* what fetchState returns
Snapshot(srv) ==
  [loaded |-> TRUE, rootFolderId |-> srv.rootFolderId,
   folders |-> srv.folders, files |-> srv.files]

\* a PATCH body applied to a stored item
ApplyPatch(item, patch) ==
  [k \in DOMAIN item |-> IF k \in DOMAIN patch THEN patch[k] ELSE item[k]]

PatchAll(arr, id, patch) ==
  [i \in DOMAIN arr |-> IF arr[i].id = id THEN ApplyPatch(arr[i], patch) ELSE arr[i]]

\* the store after an update or delete request was served
Served(srv, kind, id, patch) ==
  IF kind = "updateFolder"
  THEN [srv EXCEPT !.folders = PatchAll(@, id, patch)]
  ELSE IF kind = "updateFile"
  THEN [srv EXCEPT !.files = PatchAll(@, id, patch)]
  ELSE IF kind = "deleteFolder"
  THEN [srv EXCEPT !.folders = SelectSeq(@, LAMBDA f : f.id # id)]
  ELSE [srv EXCEPT !.files = SelectSeq(@, LAMBDA f : f.id # id)]

\* the item exists, so the request does not answer 404
Servable(srv, kind, id) ==
  IF kind \in {"updateFolder", "deleteFolder"}
  THEN Has(srv.folders, id) ELSE Has(srv.files, id)

Idle ==
  [op |-> "idle", sel |-> {}, folderIds |-> {}, fileIds |-> {}, undo |-> FALSE,
   input |-> <<>>]

\* A fire-and-forget call reaches the gateway and is served, or it fails;
\* nothing awaits its outcome.
\* the call reaches the gateway and is applied as given
SrvApply(m) ==
  /\ net' = net \ {m}
  /\ Servable(server, m.kind, m.id)
  /\ server' = Served(server, m.kind, m.id, m.patch)
  /\ lastOp' = Idle
  /\ UNCHANGED <<issued, state, section, currentFolderId, selectedIds, loading,
                 calls, trashSnap>>
  /\ UNCHANGED viewVars

SrvDeliver(m) ==
  \/ SrvApply(m)
  \/ /\ net' = net \ {m}
     /\ server' = server
     /\ lastOp' = [Idle EXCEPT !.op = "callFailed"]
     /\ UNCHANGED <<issued, state, section, currentFolderId, selectedIds, loading,
                    calls, trashSnap>>
     /\ UNCHANGED viewVars

Reply(c, res) == (calls \ {c}) \cup {[c EXCEPT !.phase = "ok", !.res = res]}

\* fetchState is served; the snapshot is on its way
SrvFetchState(c) ==
  /\ c \in calls /\ c.kind = "fetch" /\ c.phase = "sent"
  /\ calls' = Reply(c, Snapshot(server))
  /\ lastOp' = Idle
  /\ UNCHANGED <<issued, state, section, currentFolderId, selectedIds, loading,
                 server, net, trashSnap>>
  /\ UNCHANGED viewVars

\* createFolder is served; the new folder is on its way
SrvCreateFolder(c) ==
  /\ c \in calls /\ c.kind \in {"createFolder", "treeFolder"} /\ c.phase = "sent"
  /\ server.nextFolderId <= MaxFolderId
  /\ LET created == Folder(server.nextFolderId, c.arg.name, c.arg.parentId) IN
     /\ calls' = Reply(c, created)
     /\ server' = [server EXCEPT !.folders = Append(@, created),
                                 !.nextFolderId = @ + 1]
  /\ lastOp' = Idle
  /\ UNCHANGED <<issued, state, section, currentFolderId, selectedIds, loading,
                 net, trashSnap>>
  /\ UNCHANGED viewVars

\* uploadFile is served; the new file is on its way
SrvUploadFile(c) ==
  /\ c \in calls /\ c.kind \in {"uploadFile", "treeFile"} /\ c.phase = "sent"
  /\ server.nextFileId <= MaxFileId
  /\ LET name == IF c.kind = "treeFile" THEN c.arg.name ELSE Head(c.arg.names)
         created == File(server.nextFileId, name, c.arg.parentId) IN
     /\ calls' = Reply(c, created)
     /\ server' = [server EXCEPT !.files = Append(@, created),
                                 !.nextFileId = @ + 1]
  /\ lastOp' = Idle
  /\ UNCHANGED <<issued, state, section, currentFolderId, selectedIds, loading,
                 net, trashSnap>>
  /\ UNCHANGED viewVars

----------------------------------------------------------------------------
(* The component.                                                           *)

OpOn(name, acc) ==
  [op |-> name, sel |-> selectedIds, folderIds |-> acc.folderIds,
   fileIds |-> acc.fileIds, undo |-> FALSE, input |-> <<>>]

NoSnap == [taken |-> FALSE, sel |-> {}, state |-> NoState]

\* what window.prompt may return besides null
PromptInputs == { <<>>, <<" ">>, <<" ", "n">>, <<"n">> }

\* the file lists an <input type="file"> may deliver, as lists of names
UploadLists == { << <<"u">> >> }

Init ==
  /\ state = NoState
  /\ section = "my-drive"
  /\ currentFolderId = NULL
  /\ selectedIds = {}
  /\ loading = TRUE
  /\ sortBy = "name" /\ sortDir = "asc" /\ search = <<>>
  /\ server \in Seeds
  /\ calls = {Call({}, "fetch", NoRes)}
  /\ net = {}
  /\ issued = 0
  /\ lastOp = Idle
  /\ trashSnap = NoSnap

\* onToggleSelect of a card or a row that is on screen
toggleSelect(id) ==
  /\ Rendered
  /\ id \in Ids(visibleFolders) \cup Ids(visibleFiles)
  /\ selectedIds' = IF id \in selectedIds THEN selectedIds \ {id}
                    ELSE selectedIds \cup {id}
  /\ lastOp' = Idle
  /\ UNCHANGED <<issued, state, section, currentFolderId, loading, server, calls, net,
                 trashSnap>>
  /\ UNCHANGED viewVars

\* a select-all that adds what is on view to the selection
selectAllKeepsSelection ==
  /\ Rendered
  /\ selectedIds' = selectedIds \cup Ids(visibleFolders) \cup Ids(visibleFiles)
  /\ lastOp' = [Idle EXCEPT !.op = "selectAll", !.sel = selectedIds]
  /\ UNCHANGED <<issued, state, section, currentFolderId, loading, server, calls, net,
                 trashSnap>>
  /\ UNCHANGED viewVars

selectAll ==
  /\ Rendered
  /\ selectedIds' = Ids(visibleFolders) \cup Ids(visibleFiles)
  /\ lastOp' = [Idle EXCEPT !.op = "selectAll", !.sel = selectedIds]
  /\ UNCHANGED <<issued, state, section, currentFolderId, loading, server, calls, net,
                 trashSnap>>
  /\ UNCHANGED viewVars

clearSelection ==
  /\ Rendered
  /\ selectedIds # {}
  /\ selectedIds' = {}
  /\ lastOp' = Idle
  /\ UNCHANGED <<issued, state, section, currentFolderId, loading, server, calls, net,
                 trashSnap>>
  /\ UNCHANGED viewVars

\* the values typed into the search box
SearchInputs == { <<>>, <<" ">>, <<"A", " ">> }

\* onChange of the search box
setSearch(q) ==
  /\ Rendered
  /\ search' = q
  /\ lastOp' = [Idle EXCEPT !.op = "search"]
  /\ UNCHANGED <<sortBy, sortDir>>
  /\ UNCHANGED <<issued, state, section, currentFolderId, selectedIds, loading,
                 server, calls, net, trashSnap>>

toggleSort(field) ==
  /\ Rendered
  /\ IF sortBy = field
     THEN /\ sortDir' = (IF sortDir = "asc" THEN "desc" ELSE "asc")
          /\ UNCHANGED sortBy
     ELSE /\ sortBy' = field
          /\ sortDir' = "asc"
  /\ lastOp' = [Idle EXCEPT !.op = "sort"]
  /\ UNCHANGED search
  /\ UNCHANGED <<issued, state, section, currentFolderId, selectedIds, loading,
                 server, calls, net, trashSnap>>

\* the four buttons of the sidebar navigation
navigate(s) ==
  /\ Rendered
  /\ section' = s
  /\ selectedIds' = {}
  /\ lastOp' = Idle
  /\ UNCHANGED <<issued, state, currentFolderId, loading, server, calls, net, trashSnap>>
  /\ UNCHANGED viewVars

\* the places that call handleOpenFolder: the sidebar folder list, the
\* breadcrumb, and a visible folder in my-drive
handleOpenFolder(id) ==
  /\ Rendered
  /\ \/ id \in Ids(sidebarFolders)
     \/ id \in Ids(breadcrumb.chain)
     \/ section = "my-drive" /\ id \in Ids(visibleFolders)
  /\ section' = "my-drive"
  /\ currentFolderId' = id
  /\ selectedIds' = {}
  /\ lastOp' = Idle
  /\ UNCHANGED <<issued, state, loading, server, calls, net, trashSnap>>
  /\ UNCHANGED viewVars

\* handleStarToggle and handleShareToggle up to the await
toggleFlag(fileId, field) ==
  /\ Rendered
  /\ fileId \in Ids(visibleFiles)
  /\ Cardinality(calls) < MaxCalls
  /\ issued < MaxIssued
  /\ issued' = issued + 1
  /\ LET next == ~Find(files, fileId)[field] IN
     /\ state' = [state EXCEPT !.files = [i \in DOMAIN files |->
                     IF files[i].id = fileId
                     THEN [files[i] EXCEPT ![field] = next] ELSE files[i]]]
     /\ calls' = calls \cup
          {Call(calls, "toggle", [id |-> fileId, patch |-> [k \in {field} |-> next]])}
  /\ lastOp' = [Idle EXCEPT !.op = field, !.fileIds = {fileId}]
  /\ trashSnap' = NoSnap
  /\ UNCHANGED <<section, currentFolderId, selectedIds, loading, server, net>>
  /\ UNCHANGED viewVars

handleStarToggle(fileId) == toggleFlag(fileId, "starred")
handleShareToggle(fileId) == toggleFlag(fileId, "isShared")

\* parentId of handleCreateFolder and handleFilesInputChange
targetFolderId ==
  IF section = "my-drive" THEN Coalesce(currentFolderId, rootFolderId)
  ELSE rootFolderId

\* handleCreateFolder that tests the name but not the trimmed name
handleCreateFolderNoTrim(name) ==
  /\ Rendered
  /\ Cardinality(calls) < MaxCalls
  /\ issued < MaxIssued
  /\ IF name = <<>>
     THEN /\ UNCHANGED <<calls, issued>>
          /\ lastOp' = [Idle EXCEPT !.op = "rejected"]
     ELSE /\ calls' = calls \cup
               {Call(calls, "createFolder",
                     [name |-> Trim(name), parentId |-> targetFolderId])}
          /\ issued' = issued + 1
          /\ lastOp' = Idle
  /\ UNCHANGED <<state, section, currentFolderId, selectedIds, loading, server,
                 net, trashSnap>>
  /\ UNCHANGED viewVars

\* handleCreateFolder up to the await; a name that trims to nothing returns
handleCreateFolder(name) ==
  /\ Rendered
  /\ Cardinality(calls) < MaxCalls
  /\ issued < MaxIssued
  /\ IF name = <<>> \/ Trim(name) = <<>>
     THEN /\ UNCHANGED <<calls, issued>>
          /\ lastOp' = [Idle EXCEPT !.op = "rejected"]
     ELSE /\ calls' = calls \cup
               {Call(calls, "createFolder",
                     [name |-> Trim(name), parentId |-> targetFolderId])}
          /\ issued' = issued + 1
          /\ lastOp' = Idle
  /\ UNCHANGED <<state, section, currentFolderId, selectedIds, loading, server,
                 net, trashSnap>>
  /\ UNCHANGED viewVars

\* handleFilesInputChange up to the first await
handleFilesInputChange(fileList) ==
  /\ Rendered
  /\ Cardinality(calls) < MaxCalls
  /\ issued < MaxIssued
  /\ issued' = issued + 1
  /\ calls' = calls \cup
       {Call(calls, "uploadFile", [names |-> fileList, parentId |-> targetFolderId])}
  /\ lastOp' = Idle
  /\ UNCHANGED <<state, section, currentFolderId, selectedIds, loading, server,
                 net, trashSnap>>
  /\ UNCHANGED viewVars

\* A relative path is the list of its segments, the file name last.
DirOf(path) == SubSeq(path, 1, Len(path) - 1)

\* the for loop of ensureFolderPath from segment k on: the first segment whose
\* prefix is not in pathToFolderId, or Len(dir) + 1, and parentId at that point
RECURSIVE ensureLoop(_, _, _, _)
ensureLoop(map, dir, k, parentId) ==
  IF k > Len(dir) THEN [k |-> k, parentId |-> parentId]
  ELSE IF SubSeq(dir, 1, k) \in DOMAIN map
  THEN ensureLoop(map, dir, k + 1, map[SubSeq(dir, 1, k)])
  ELSE [k |-> k, parentId |-> parentId]

\* ensureFolderPath that trusts the deepest prefix it knows and creates only
\* the last segment below it
ensureFolderPathLastOnly(map, base, dir) ==
  IF dir \in DOMAIN map
  THEN [k |-> Len(dir) + 1, parentId |-> map[dir]]
  ELSE [k |-> Len(dir), parentId |-> ensureLoop(map, dir, 1, base).parentId]

\* ensureFolderPath up to its first await
ensureFolderPath(map, base, dir) ==
  IF dir \in DOMAIN map
  THEN [k |-> Len(dir) + 1, parentId |-> map[dir]]
  ELSE ensureLoop(map, dir, 1, base)

\* the call that handleFolderInputChange awaits next: apiCreateFolder for
\* segment at.k of the current path, or apiUploadFile when the path is there
TreeCall(cs, ctx, at) ==
  LET dir == DirOf(ctx.path) IN
  IF at.k > Len(dir)
  THEN Call(cs, "treeFile",
            [ctx EXCEPT !.k = at.k, !.parentId = at.parentId,
                        !.name = ctx.path[Len(ctx.path)]])
  ELSE Call(cs, "treeFolder",
            [ctx EXCEPT !.k = at.k, !.parentId = at.parentId, !.name = dir[at.k]])

\* the lists of relative paths a folder input may deliver
Project == <<"p">>
Notes == <<"n">>
Readme == <<"r">>
Todo == <<"t">>

TreeLists ==
  { << <<Project, Notes, Readme>> >>,
    << <<Project, Todo>> >>,
    << <<Project, Notes, Readme>>, <<Project, Todo>> >>,
    << <<Project, Todo>>, <<Project, Notes, Readme>> >>,
    << <<Todo>> >> }

\* handleFolderInputChange up to the first await
handleFolderInputChange(fileList) ==
  /\ Rendered
  /\ fileList # <<>>
  /\ Cardinality(calls) < MaxCalls
  /\ issued < MaxIssued
  /\ issued' = issued + 1
  /\ LET baseFolderId == targetFolderId
         pathToFolderId == (<<>> :> baseFolderId)
         ctx == [name |-> <<>>, parentId |-> baseFolderId, k |-> 1,
                 map |-> pathToFolderId, base |-> baseFolderId,
                 path |-> Head(fileList), rest |-> Tail(fileList),
                 input |-> fileList, madeFolders |-> {}, madeFiles |-> {}]
     IN calls' = calls \cup
          {TreeCall(calls, ctx,
                    ensureFolderPath(pathToFolderId, baseFolderId, DirOf(ctx.path)))}
  /\ lastOp' = [Idle EXCEPT !.op = "treeStarted", !.input = fileList]
  /\ UNCHANGED <<state, section, currentFolderId, selectedIds, loading, server,
                 net, trashSnap>>
  /\ UNCHANGED viewVars

\* A handler with fire-and-forget calls needs a slot for them.
CanSend(msgs) == msgs = {} \/ FreeSlots # {}
Sent(msgs) == IF msgs = {} THEN net ELSE net \cup InSlot(msgs, Slot)

\* the folder on view is one of those that only the selection names
resetsViewSelectedOnly(acc) ==
  currentFolderId # NULL /\ currentFolderId \in selectedIds

\* if (currentFolderId && folderIds.has(currentFolderId))
resetsView(acc) ==
  currentFolderId # NULL /\ currentFolderId \in acc.folderIds

\* the "delete" button, shown outside the trash while something is selected
handleMoveToTrashSelected ==
  /\ Rendered
  /\ section # "trash"
  /\ selectedIds # {}
  /\ LET acc == trashSets(state, selectedIds)
         msgs == trashMsgs(state, acc)
     IN /\ CanSend(msgs)
        /\ state' = applyTrash(state, acc)
        /\ net' = Sent(msgs)
        /\ IF resetsView(acc)
           THEN currentFolderId' = rootFolderId /\ section' = "my-drive"
           ELSE UNCHANGED <<currentFolderId, section>>
        /\ lastOp' = OpOn("moveToTrash", acc)
  /\ selectedIds' = {}
  /\ trashSnap' = IF Cardinality(selectedIds) = 1
                  THEN [taken |-> TRUE, sel |-> selectedIds, state |-> state]
                  ELSE NoSnap
  /\ UNCHANGED <<issued, loading, server, calls>>
  /\ UNCHANGED viewVars

\* The selection is the one id that the last change of the DriveState, a
\* moveToTrash, was run on, and that id was a folder outside the trash.
UndoesTrash ==
  /\ trashSnap.taken
  /\ selectedIds = trashSnap.sel
  /\ \E i \in DOMAIN trashSnap.state.folders :
        /\ trashSnap.state.folders[i].id \in trashSnap.sel
        /\ ~trashSnap.state.folders[i].trashed

\* the "restore" button, shown in the trash while something is selected
handleRestoreSelected ==
  /\ Rendered
  /\ section = "trash"
  /\ selectedIds # {}
  /\ LET acc == restoreSets(state, selectedIds)
         msgs == restoreMsgs(state, acc)
     IN /\ CanSend(msgs)
        /\ state' = applyRestore(state, acc)
        /\ net' = Sent(msgs)
        /\ lastOp' = [OpOn("restore", acc) EXCEPT !.undo = UndoesTrash]
  /\ selectedIds' = {}
  /\ section' = "my-drive"
  /\ trashSnap' = NoSnap
  /\ UNCHANGED <<issued, currentFolderId, loading, server, calls>>
  /\ UNCHANGED viewVars

\* the "delete forever" button, shown in the trash while something is selected
handlePermanentDeleteSelected ==
  /\ Rendered
  /\ section = "trash"
  /\ selectedIds # {}
  /\ LET acc == deleteSets(state, selectedIds)
         msgs == deleteMsgs(acc.folderIds, acc.fileIds)
     IN /\ CanSend(msgs)
        /\ state' = applyDelete(state, acc)
        /\ net' = Sent(msgs)
        /\ lastOp' = OpOn("permanentDelete", acc)
  /\ selectedIds' = {}
  /\ trashSnap' = NoSnap
  /\ UNCHANGED <<issued, section, currentFolderId, loading, server, calls>>
  /\ UNCHANGED viewVars

\* the "empty trash" button, shown in the trash while nothing is selected
handleEmptyTrash ==
  /\ Rendered
  /\ section = "trash"
  /\ selectedIds = {}
  /\ hasTrash
  /\ LET foldersToDelete == {folders[i].id : i \in {i \in DOMAIN folders : folders[i].trashed}}
         filesToDelete == {files[i].id : i \in {i \in DOMAIN files : files[i].trashed}}
         msgs == deleteMsgs(foldersToDelete, filesToDelete)
     IN /\ CanSend(msgs)
        /\ state' = applyEmptyTrash(state)
        /\ net' = Sent(msgs)
        /\ lastOp' = [Idle EXCEPT !.op = "emptyTrash",
                                   !.folderIds = foldersToDelete,
                                   !.fileIds = filesToDelete]
  /\ selectedIds' = {}
  /\ trashSnap' = NoSnap
  /\ UNCHANGED <<issued, section, currentFolderId, loading, server, calls>>
  /\ UNCHANGED viewVars

----------------------------------------------------------------------------
(* The continuations of the awaited calls.  They run on the component's    *)
(* thread, so none runs while a render is stuck in the breadcrumb loop.    *)

\* A call that failed has phase "sent": the gateway's store is as it was, and
\* the handler's catch runs when the rejection arrives.
Answered(c) == c.phase = "ok"

\* loadState after the await: try / finally
loadStateDone(c) ==
  /\ c \in calls /\ c.kind = "fetch" /\ Answered(c)
  /\ ~Hung
  /\ calls' = calls \ {c}
  /\ state' = c.res
  /\ currentFolderId' = c.res.rootFolderId
  /\ loading' = FALSE
  /\ trashSnap' = NoSnap
  /\ lastOp' = [Idle EXCEPT !.op = "loaded"]
  /\ UNCHANGED <<issued, section, selectedIds, server, net>>
  /\ UNCHANGED viewVars

\* loadState after the await: catch / finally
loadStateFailed(c) ==
  /\ c \in calls /\ c.kind = "fetch" /\ ~Answered(c)
  /\ ~Hung
  /\ calls' = calls \ {c}
  /\ loading' = FALSE
  /\ lastOp' = Idle
  /\ UNCHANGED <<issued, state, section, currentFolderId, selectedIds, server, net,
                 trashSnap>>
  /\ UNCHANGED viewVars

\* apiUpdateFile of a toggle is served; the handler has nothing left to do
toggleDone(c) ==
  /\ c \in calls /\ c.kind = "toggle"
  /\ Servable(server, "updateFile", c.arg.id)
  /\ server' = Served(server, "updateFile", c.arg.id, c.arg.patch)
  /\ calls' = calls \ {c}
  /\ lastOp' = Idle
  /\ UNCHANGED <<issued, state, section, currentFolderId, selectedIds, loading, net,
                 trashSnap>>
  /\ UNCHANGED viewVars

\* a catch that only logs the error
toggleFailedNoReload(c) ==
  /\ c \in calls /\ c.kind = "toggle"
  /\ ~Hung
  /\ calls' = calls \ {c}
  /\ lastOp' = [Idle EXCEPT !.op = "toggleFailed"]
  /\ UNCHANGED <<issued, state, section, currentFolderId, selectedIds, loading, server,
                 net, trashSnap>>
  /\ UNCHANGED viewVars

\* apiUpdateFile of a toggle fails: the catch calls loadState
toggleFailed(c) ==
  /\ c \in calls /\ c.kind = "toggle"
  /\ ~Hung
  /\ calls' = (calls \ {c}) \cup {Call(calls \ {c}, "fetch", NoRes)}
  /\ loading' = TRUE
  /\ lastOp' = [Idle EXCEPT !.op = "toggleFailed"]
  /\ UNCHANGED <<issued, state, section, currentFolderId, selectedIds, server, net,
                 trashSnap>>
  /\ UNCHANGED viewVars

\* handleCreateFolder after the await
createFolderDone(c) ==
  /\ c \in calls /\ c.kind = "createFolder" /\ Answered(c)
  /\ ~Hung
  /\ calls' = calls \ {c}
  /\ IF state.loaded
     THEN /\ state' = [state EXCEPT !.folders = Append(@, c.res)]
          /\ trashSnap' = NoSnap
     ELSE UNCHANGED <<state, trashSnap>>
  /\ lastOp' = [Idle EXCEPT !.op = "folderCreated"]
  /\ UNCHANGED <<issued, section, currentFolderId, selectedIds, loading, server, net>>
  /\ UNCHANGED viewVars

\* handleFilesInputChange after an await: append and go on with the next
\* file of the list
uploadDone(c) ==
  /\ c \in calls /\ c.kind = "uploadFile" /\ Answered(c)
  /\ ~Hung
  /\ IF state.loaded
     THEN /\ state' = [state EXCEPT !.files = Append(@, c.res)]
          /\ trashSnap' = NoSnap
     ELSE UNCHANGED <<state, trashSnap>>
  /\ calls' = IF Len(c.arg.names) > 1
              THEN (calls \ {c}) \cup
                     {[c EXCEPT !.phase = "sent", !.res = NoRes,
                                !.arg.names = Tail(@)]}
              ELSE calls \ {c}
  /\ lastOp' = [Idle EXCEPT !.op = "fileUploaded"]
  /\ UNCHANGED <<issued, section, currentFolderId, selectedIds, loading, server, net>>
  /\ UNCHANGED viewVars

\* a catch that reloads the DriveState, as the catch of the toggles does
createOrUploadFailedReloads(c) ==
  /\ c \in calls /\ c.kind \in {"createFolder", "uploadFile"} /\ ~Answered(c)
  /\ ~Hung
  /\ calls' = (calls \ {c}) \cup {Call(calls \ {c}, "fetch", NoRes)}
  /\ loading' = TRUE
  /\ lastOp' = [Idle EXCEPT !.op = "createFailed"]
  /\ UNCHANGED <<issued, state, section, currentFolderId, selectedIds, server, net,
                 trashSnap>>
  /\ UNCHANGED viewVars

\* apiCreateFolder or apiUploadFile fails: the catch alerts and the handler ends
createOrUploadFailed(c) ==
  /\ c \in calls /\ c.kind \in {"createFolder", "uploadFile"} /\ ~Answered(c)
  /\ ~Hung
  /\ calls' = calls \ {c}
  /\ lastOp' = [Idle EXCEPT !.op = "createFailed"]
  /\ UNCHANGED <<issued, state, section, currentFolderId, selectedIds, loading, server,
                 net, trashSnap>>
  /\ UNCHANGED viewVars

\* ensureFolderPath after its await: the folder is appended and remembered,
\* and the loop goes on with the next segment
treeFolderDone(c) ==
  /\ c \in calls /\ c.kind = "treeFolder" /\ Answered(c)
  /\ ~Hung
  /\ IF state.loaded
     THEN /\ state' = [state EXCEPT !.folders = Append(@, c.res)]
          /\ trashSnap' = NoSnap
     ELSE UNCHANGED <<state, trashSnap>>
  /\ LET a == c.arg
         dir == DirOf(a.path)
         map == (SubSeq(dir, 1, a.k) :> c.res.id) @@ a.map
         ctx == [a EXCEPT !.map = map, !.madeFolders = @ \cup {c.res.id}]
     IN calls' = (calls \ {c}) \cup
          {TreeCall(calls \ {c}, ctx, ensureLoop(map, dir, a.k + 1, c.res.id))}
  /\ lastOp' = [Idle EXCEPT !.op = "treeFolderCreated"]
  /\ UNCHANGED <<issued, section, currentFolderId, selectedIds, loading, server, net>>
  /\ UNCHANGED viewVars

\* handleFolderInputChange after the await of apiUploadFile: the file is
\* appended and the for loop goes on with the next file, or the handler ends
treeFileDone(c) ==
  /\ c \in calls /\ c.kind = "treeFile" /\ Answered(c)
  /\ ~Hung
  /\ IF state.loaded
     THEN /\ state' = [state EXCEPT !.files = Append(@, c.res)]
          /\ trashSnap' = NoSnap
     ELSE UNCHANGED <<state, trashSnap>>
  /\ LET a == c.arg
         ctx == [a EXCEPT !.madeFiles = @ \cup {c.res.id},
                          !.path = IF a.rest = <<>> THEN a.path ELSE Head(a.rest),
                          !.rest = IF a.rest = <<>> THEN <<>> ELSE Tail(a.rest)]
     IN IF a.rest = <<>>
        THEN /\ calls' = calls \ {c}
             /\ lastOp' = [Idle EXCEPT !.op = "treeDone", !.sel = {a.base},
                                        !.folderIds = ctx.madeFolders,
                                        !.fileIds = ctx.madeFiles,
                                        !.input = a.input]
        ELSE /\ calls' = (calls \ {c}) \cup
                  {TreeCall(calls \ {c}, ctx,
                            ensureFolderPath(ctx.map, ctx.base, DirOf(ctx.path)))}
             /\ lastOp' = [Idle EXCEPT !.op = "treeFileUploaded"]
  /\ UNCHANGED <<issued, section, currentFolderId, selectedIds, loading, server, net>>
  /\ UNCHANGED viewVars

\* a catch that takes back what the handler has created
treeFailedRollsBack(c) ==
  /\ c \in calls /\ c.kind \in {"treeFolder", "treeFile"} /\ ~Answered(c)
  /\ ~Hung
  /\ calls' = calls \ {c}
  /\ lastOp' = [Idle EXCEPT !.op = "treeFailed",
                            !.folderIds = c.arg.madeFolders,
                            !.fileIds = c.arg.madeFiles,
                            !.input = c.arg.input]
  /\ state' = [state EXCEPT
       !.folders = SelectSeq(@, LAMBDA f : f.id \notin c.arg.madeFolders),
       !.files = SelectSeq(@, LAMBDA f : f.id \notin c.arg.madeFiles)]
  /\ UNCHANGED <<issued, section, currentFolderId, selectedIds, loading, server,
                 net, trashSnap>>
  /\ UNCHANGED viewVars

\* a call of handleFolderInputChange fails: the catch alerts, the handler ends
\* and what it has created stays
treeFailed(c) ==
  /\ c \in calls /\ c.kind \in {"treeFolder", "treeFile"} /\ ~Answered(c)
  /\ ~Hung
  /\ calls' = calls \ {c}
  /\ lastOp' = [Idle EXCEPT !.op = "treeFailed",
                            !.folderIds = c.arg.madeFolders,
                            !.fileIds = c.arg.madeFiles,
                            !.input = c.arg.input]
  /\ UNCHANGED <<issued, state, section, currentFolderId, selectedIds, loading, server,
                 net, trashSnap>>
  /\ UNCHANGED viewVars

----------------------------------------------------------------------------

ItemIds == 1..(IF MaxFolderId > MaxFileId THEN MaxFolderId ELSE MaxFileId)

\* selection and navigation
Browse ==
  \/ \E id \in ItemIds : toggleSelect(id)
  \/ selectAll
  \/ clearSelection
  \/ \E s \in Sections : navigate(s)
  \/ \E id \in ItemIds : handleOpenFolder(id)

\* loadState, started by the mount effect or by a failed toggle
Load ==
  \/ \E c \in calls : SrvFetchState(c)
  \/ \E c \in calls : loadStateDone(c)
  \/ \E c \in calls : loadStateFailed(c)

\* the optimistic handlers with fire-and-forget calls
Mutate ==
  \/ handleMoveToTrashSelected
  \/ handleRestoreSelected
  \/ handlePermanentDeleteSelected
  \/ handleEmptyTrash
  \/ \E m \in net : SrvDeliver(m)

\* the handlers that await the gateway
Await ==
  \/ \E id \in ItemIds : handleStarToggle(id)
  \/ \E id \in ItemIds : handleShareToggle(id)
  \/ \E name \in PromptInputs : handleCreateFolder(name)
  \/ \E fileList \in UploadLists : handleFilesInputChange(fileList)
  \/ \E c \in calls : toggleDone(c)
  \/ \E c \in calls : toggleFailed(c)
  \/ \E c \in calls : SrvCreateFolder(c)
  \/ \E c \in calls : SrvUploadFile(c)
  \/ \E c \in calls : createFolderDone(c)
  \/ \E c \in calls : uploadDone(c)
  \/ \E c \in calls : createOrUploadFailed(c)

\* Browsing, trash, restore and delete, with their remote calls in flight.
Next == Browse \/ Load \/ Mutate

Spec == Init /\ [][Next]_vars

\* Browsing and the awaited calls: toggles, create, upload and the reload.
NextSync == Browse \/ Load \/ Await

SpecSync == Init /\ [][NextSync]_vars

\* Spec with a gateway that answers every call in flight and a component
\* that runs the continuation of every answered call.
SpecLive ==
  /\ Init /\ [][Next]_vars
  /\ WF_vars(Load)
  /\ WF_vars(\E m \in net : SrvDeliver(m))

\* The DriveStates of three folders and one file that the declared types
\* allow: the handlers' local updates and remote calls are functions of the
\* DriveState, the selection, the section and the folder on view, and they
\* are applied here to every such input.
AnyFolder(id, name, parents, origins) ==
  {[Folder(id, name, p) EXCEPT !.trashed = t, !.originalParentId = o] :
      p \in parents, t \in BOOLEAN, o \in origins}

AnyFile(id, name, parents, origins) ==
  {[File(id, name, p) EXCEPT !.trashed = t, !.originalParentId = o] :
      p \in parents, t \in BOOLEAN, o \in origins}

AnyStates ==
  {[loaded |-> TRUE, rootFolderId |-> 1, folders |-> <<r, d, sub>>, files |-> <<a>>] :
      r \in AnyFolder(1, <<"r">>, {NULL}, {NULL}),
      d \in AnyFolder(2, <<"d">>, {1}, {NULL, 1, 2}),
      sub \in AnyFolder(3, <<"s">>, {2}, {NULL, 1}),
      a \in AnyFile(1, <<"a">>, {NULL, 3}, {NULL, 1})}

\* the names that handleCreateFolder turns down
RejectedInputs == {name \in PromptInputs : Trim(name) = <<>>}

InitStore ==
  /\ state \in AnyStates
  /\ section \in {"my-drive", "starred", "trash"}
  /\ currentFolderId \in {NULL, 3}
  /\ selectedIds \in SUBSET {1, 2, 3}
  /\ loading = FALSE
  /\ sortBy = "name" /\ sortDir = "asc" /\ search = <<>>
  /\ server = [rootFolderId |-> state.rootFolderId, folders |-> state.folders,
               files |-> state.files, nextFolderId |-> 4, nextFileId |-> 2]
  /\ calls = {}
  /\ net = {}
  /\ issued = 0
  /\ lastOp = Idle
  /\ trashSnap = NoSnap

NextStore ==
  \/ handleMoveToTrashSelected
  \/ handleRestoreSelected
  \/ handlePermanentDeleteSelected
  \/ handleEmptyTrash
  \/ \E name \in RejectedInputs : handleCreateFolder(name)

SpecStore == InitStore /\ [][NextStore]_vars

\* Trash, restore and the toggles when no remote call fails: the calls are
\* applied by the gateway in the order in which they happen to arrive.
NextQuiet ==
  \/ \E id \in ItemIds : toggleSelect(id)
  \/ \E s \in Sections : navigate(s)
  \/ \E id \in ItemIds : handleOpenFolder(id)
  \/ \E c \in calls : SrvFetchState(c)
  \/ \E c \in calls : loadStateDone(c)
  \/ \E id \in ItemIds : handleStarToggle(id)
  \/ \E id \in ItemIds : handleShareToggle(id)
  \/ \E c \in calls : toggleDone(c)
  \/ handleMoveToTrashSelected
  \/ handleRestoreSelected
  \/ \E m \in net : SrvApply(m)

SpecQuiet == Init /\ [][NextQuiet]_vars

\* The view is a function of the DriveState, the section, the folder on
\* view, the search text and the sort order; it is computed here for drives
\* whose names differ in case, in length and in order.
ViewNames == { <<"b">>, <<"A">>, <<"a">> }

ViewStates ==
  {[loaded |-> TRUE, rootFolderId |-> 1,
    folders |-> << Folder(1, <<"r">>, NULL),
                   Folder(2, <<"b">>, 1),
                   [Folder(3, <<"A">>, 1) EXCEPT
                      !.trashed = t3, !.originalParentId = IF t3 THEN 1 ELSE NULL] >>,
    files |-> << [File(1, n1, 1) EXCEPT
                    !.starred = TRUE, !.modifiedAt = <<2>>,
                    !.trashed = t1, !.originalParentId = IF t1 THEN 1 ELSE NULL],
                 [File(2, n2, 1) EXCEPT
                    !.starred = s2, !.isShared = TRUE, !.modifiedAt = <<1, 0>>],
                 [File(3, <<"a">>, p3) EXCEPT
                    !.starred = TRUE, !.isShared = TRUE, !.modifiedAt = <<2>>] >>] :
      n1 \in ViewNames, n2 \in (ViewNames \ {<<"b">>}) \cup {<<"a", "B">>}, t1 \in BOOLEAN, s2 \in BOOLEAN,
      t3 \in BOOLEAN, p3 \in {1, 2}}

InitView ==
  /\ state \in ViewStates
  /\ section = "my-drive"
  /\ currentFolderId = state.rootFolderId
  /\ selectedIds = {}
  /\ loading = FALSE
  /\ sortBy = "name" /\ sortDir = "asc" /\ search = <<>>
  /\ server = [rootFolderId |-> state.rootFolderId, folders |-> state.folders,
               files |-> state.files, nextFolderId |-> 4, nextFileId |-> 4]
  /\ calls = {}
  /\ net = {}
  /\ issued = 0
  /\ lastOp = Idle
  /\ trashSnap = NoSnap

NextView ==
  \/ \E q \in SearchInputs : setSearch(q)
  \/ \E field \in {"name", "modifiedAt"} : toggleSort(field)
  \/ selectAll
  \/ \E s \in Sections : navigate(s)
  \/ \E id \in ItemIds : handleOpenFolder(id)

SpecView == InitView /\ [][NextView]_vars

\* A drive that holds nothing but its root.
EmptyDrive ==
  [rootFolderId |-> 1, folders |-> << Folder(1, <<"r">>, NULL) >>, files |-> <<>>,
   nextFolderId |-> 2, nextFileId |-> 1]

InitTree ==
  /\ state = NoState
  /\ section = "my-drive"
  /\ currentFolderId = NULL
  /\ selectedIds = {}
  /\ loading = TRUE
  /\ sortBy = "name" /\ sortDir = "asc" /\ search = <<>>
  /\ server = EmptyDrive
  /\ calls = {Call({}, "fetch", NoRes)}
  /\ net = {}
  /\ issued = 0
  /\ lastOp = Idle
  /\ trashSnap = NoSnap

\* the folder upload
Tree ==
  \/ \E fileList \in TreeLists : handleFolderInputChange(fileList)
  \/ \E c \in calls : SrvCreateFolder(c)
  \/ \E c \in calls : SrvUploadFile(c)
  \/ \E c \in calls : treeFolderDone(c)
  \/ \E c \in calls : treeFileDone(c)
  \/ \E c \in calls : treeFailed(c)

\* Folder uploads into an empty drive, into the root or into a folder opened.
NextTree == Load \/ Tree \/ \E id \in ItemIds : handleOpenFolder(id)

SpecTree == InitTree /\ [][NextTree]_vars

TypeOK ==
  /\ sortBy \in {"name", "modifiedAt"}
  /\ sortDir \in {"asc", "desc"}
  /\ section \in Sections
  /\ loading \in BOOLEAN
  /\ Cardinality(calls) <= MaxCalls

----------------------------------------------------------------------------
(* Properties.                                                              *)

LiveFolder(st, id) ==
  \E j \in DOMAIN st.folders : st.folders[j].id = id /\ ~st.folders[j].trashed

\* C1: in every reachable state the folder whose id is rootFolderId is not
\* trashed.
C1_RootNeverTrashed ==
  state.loaded =>
    \A i \in DOMAIN folders : folders[i].id = rootFolderId => ~folders[i].trashed

\* C2: in every reachable state a folder whose id is rootFolderId is present
\* in the local folder collection.
C2_RootAlwaysPresent ==
  state.loaded => Has(folders, rootFolderId)

ParentIsLive(st, item) ==
  \/ item.parentId = NULL
  \/ item.parentId = st.rootFolderId
  \/ LiveFolder(st, item.parentId)

\* C3: after any sequence of moveToTrash and restore on selections of visible
\* items, every non-trashed folder or file has a parentId that is null, the
\* root, or the id of a folder that is itself not trashed.
C3_LiveItemsHaveLiveParents ==
  state.loaded =>
    /\ \A i \in DOMAIN folders : ~folders[i].trashed => ParentIsLive(state, folders[i])
    /\ \A i \in DOMAIN files : ~files[i].trashed => ParentIsLive(state, files[i])

\* the parent links of folder i, followed through non-trashed folders, come
\* back to folder i
RECURSIVE ReturnsTo(_, _, _, _)
ReturnsTo(st, i, cur, fuel) ==
  LET p == FindLive(st.folders, st.folders[cur].parentId) IN
  /\ p # 0
  /\ \/ p = i
     \/ fuel > 0 /\ ReturnsTo(st, i, p, fuel - 1)

\* the parent links of folder i, followed through non-trashed folders, arrive
\* at the root folder
RECURSIVE ReachesRoot(_, _, _)
ReachesRoot(st, i, fuel) ==
  \/ st.folders[i].id = st.rootFolderId
  \/ /\ fuel > 0
     /\ LET p == FindLive(st.folders, st.folders[i].parentId) IN
        p # 0 /\ ReachesRoot(st, p, fuel - 1)

\* C4: in every reachable state the parentId relation restricted to the
\* non-trashed folders has no cycle, and the parent chain of every non-trashed
\* folder ends at rootFolderId.
C4_LiveFoldersFormTree ==
  state.loaded =>
    \A i \in DOMAIN folders : ~folders[i].trashed =>
      /\ ~ReturnsTo(state, i, i, Len(folders))
      /\ ReachesRoot(state, i, Len(folders))

OriginalParentOnlyInTrash(st) ==
  /\ \A i \in DOMAIN st.folders :
       st.folders[i].originalParentId # NULL => st.folders[i].trashed
  /\ \A i \in DOMAIN st.files :
       st.files[i].originalParentId # NULL => st.files[i].trashed

\* a restore step leaves every item it took out of the trash with no
\* originalParentId
RestoreClearsOriginalParent ==
  handleRestoreSelected =>
    /\ \A i \in DOMAIN folders :
         (folders[i].trashed /\ ~state'.folders[i].trashed)
            => state'.folders[i].originalParentId = NULL
    /\ \A i \in DOMAIN files :
         (files[i].trashed /\ ~state'.files[i].trashed)
            => state'.files[i].originalParentId = NULL

\* C5: in every reachable state an item with a non-null originalParentId is
\* trashed, and every item that restore takes out of the trash has a null
\* originalParentId right afterwards.
C5_OriginalParentLifecycle ==
  /\ [](state.loaded => OriginalParentOnlyInTrash(state))
  /\ [][RestoreClearsOriginalParent]_vars

\* restore has just taken a folder and a file out of the trash
C5_Witness ==
  /\ lastOp.op = "restore"
  /\ \E i \in DOMAIN folders :
       /\ folders[i].id \in lastOp.folderIds
       /\ ~folders[i].trashed /\ folders[i].originalParentId = NULL
  /\ \E i \in DOMAIN files :
       /\ files[i].id \in lastOp.fileIds
       /\ ~files[i].trashed /\ files[i].originalParentId = NULL
  /\ hasTrash

\* C7: after every operation the non-null parentId of every folder and file is
\* the id of a folder that is present in the local folder collection.
C7_NoDanglingParent ==
  state.loaded =>
    /\ \A i \in DOMAIN folders :
         folders[i].parentId # NULL => Has(folders, folders[i].parentId)
    /\ \A i \in DOMAIN files :
         files[i].parentId # NULL => Has(folders, files[i].parentId)

\* the folder ids of S and of every folder parented, over any number of
\* links, under one of them: the least set closed under "child of"
RECURSIVE Subtree(_, _)
Subtree(st, S) ==
  LET more == S \cup {st.folders[i].id : i \in {i \in DOMAIN st.folders :
                        st.folders[i].parentId \in S}}
  IN IF more = S THEN S ELSE Subtree(st, more)

\* C8: permanentDelete with a selection that contains folder F removes F,
\* every folder parented under F over any number of links whatever its trashed
\* flag, and every file whose parentId is one of these; afterwards no folder or
\* file that remains has the id of a removed folder as its parentId.
C8_PermanentDeleteRemovesSubtree ==
  [][handlePermanentDeleteSelected =>
      LET picked == {folders[i].id : i \in {i \in DOMAIN folders :
                        folders[i].id \in selectedIds}}
          sub == Subtree(state, picked)
          removed == Ids(folders) \ Ids(state'.folders)
      IN /\ \A id \in sub : ~Has(state'.folders, id)
         /\ \A i \in DOMAIN files :
              files[i].parentId \in sub => ~Has(state'.files, files[i].id)
         /\ \A j \in DOMAIN state'.folders : state'.folders[j].parentId \notin removed
         /\ \A j \in DOMAIN state'.files : state'.files[j].parentId \notin removed
    ]_vars

\* permanentDelete has just run on folder 2 alone and has removed it, the
\* folder below it and the file in it
C8_Witness ==
  /\ lastOp.op = "permanentDelete"
  /\ lastOp.sel = {2}
  /\ lastOp.folderIds = {2, 3}
  /\ lastOp.fileIds = {1}
  /\ Ids(folders) = {1}
  /\ files = <<>>

\* the non-trashed folders of S and every non-trashed folder reached from
\* them downward through non-trashed folders
RECURSIVE LiveSubtree(_, _)
LiveSubtree(st, S) ==
  LET more == S \cup {st.folders[i].id : i \in {i \in DOMAIN st.folders :
                        ~st.folders[i].trashed /\ st.folders[i].parentId \in S}}
  IN IF more = S THEN S ELSE LiveSubtree(st, more)

\* C10: moveToTrash(S) sets trashed on exactly the non-trashed folders and
\* files whose id is in S and the non-trashed folders and files reached from a
\* newly trashed folder downward through non-trashed folders; every other item
\* keeps its trashed flag; an item trashed by it that had no originalParentId
\* records its parentId there (Docs records the root, a.txt records Docs).
C10_MoveToTrashCascade ==
  [][handleMoveToTrashSelected =>
      LET picked == {folders[i].id : i \in {i \in DOMAIN folders :
                        ~folders[i].trashed /\ folders[i].id \in selectedIds}}
          sub == LiveSubtree(state, picked)
          hitFolder(f) == ~f.trashed /\ f.id \in sub
          hitFile(f) == ~f.trashed /\ (f.id \in selectedIds \/ f.parentId \in sub)
      IN /\ DOMAIN state'.folders = DOMAIN folders
         /\ DOMAIN state'.files = DOMAIN files
         /\ \A i \in DOMAIN folders :
              /\ state'.folders[i].trashed = (folders[i].trashed \/ hitFolder(folders[i]))
              /\ (hitFolder(folders[i]) /\ folders[i].originalParentId = NULL)
                   => state'.folders[i].originalParentId = folders[i].parentId
         /\ \A i \in DOMAIN files :
              /\ state'.files[i].trashed = (files[i].trashed \/ hitFile(files[i]))
              /\ (hitFile(files[i]) /\ files[i].originalParentId = NULL)
                   => state'.files[i].originalParentId = files[i].parentId
    ]_vars

\* moveToTrash has just run on folder 2 alone ("Docs", in the root): the folder
\* and the file in it are trashed and record where they were
C10_Witness ==
  /\ lastOp.op = "moveToTrash"
  /\ lastOp.sel = {2}
  /\ 2 \in lastOp.folderIds /\ 1 \in lastOp.fileIds
  /\ \E i \in DOMAIN folders :
       /\ folders[i].id = 2 /\ folders[i].trashed
       /\ folders[i].originalParentId = rootFolderId
  /\ \E i \in DOMAIN files :
       /\ files[i].id = 1 /\ files[i].trashed /\ files[i].parentId = 2
       /\ files[i].originalParentId = 2
  /\ \E i \in DOMAIN folders : folders[i].id = rootFolderId /\ ~folders[i].trashed

\* C6: in every reachable state no two folders of the local collection share
\* an id and no two files share an id, also when a reload started by a failed
\* toggle completes while a create or an upload is in flight and the created
\* item is appended afterwards.
C6_IdsUnique ==
  state.loaded =>
    /\ \A i, j \in DOMAIN folders : folders[i].id = folders[j].id => i = j
    /\ \A i, j \in DOMAIN files : files[i].id = files[j].id => i = j

\* The step is a restore of the one folder that the last change of the
\* DriveState, a moveToTrash, was run on.
RestoreUndoesTrash == handleRestoreSelected /\ UndoesTrash

RoundTrip(before, was, now, under) ==
  /\ now.id = was.id
  /\ now.parentId = (IF was.parentId = NULL /\ ~now.trashed /\ (was.trashed \/ under)
                     THEN before.rootFolderId ELSE was.parentId)
  /\ ~was.trashed => (~now.trashed /\ now.originalParentId = NULL)
  /\ was.trashed =>
       \/ now = was
       \/ under /\ ~now.trashed /\ now.originalParentId = NULL

KeepsPlacement(was, now) ==
  /\ now.parentId = was.parentId
  /\ now.originalParentId =
       (IF was.originalParentId # NULL THEN was.originalParentId ELSE was.parentId)

\* C11: every item that moveToTrash puts into the trash, selected or reached
\* by the cascade, keeps its parentId; its originalParentId stays as it was
\* when it was non-null already and is its parentId otherwise.
C11_TrashKeepsOriginalParent ==
  [][handleMoveToTrashSelected =>
      /\ \A i \in DOMAIN folders :
           (~folders[i].trashed /\ state'.folders[i].trashed)
              => KeepsPlacement(folders[i], state'.folders[i])
      /\ \A i \in DOMAIN files :
           (~files[i].trashed /\ state'.files[i].trashed)
              => KeepsPlacement(files[i], state'.files[i])
    ]_vars

\* moveToTrash has just trashed a folder that kept an older originalParentId,
\* other than its parentId, and an item that recorded its parentId
C11_Witness ==
  /\ lastOp.op = "moveToTrash"
  /\ \E i \in DOMAIN folders :
       /\ folders[i].id \in lastOp.folderIds /\ folders[i].trashed
       /\ folders[i].originalParentId \notin {NULL, folders[i].parentId}
  /\ \E i \in DOMAIN files :
       /\ files[i].id \in lastOp.fileIds /\ files[i].trashed
       /\ files[i].parentId # NULL
       /\ files[i].originalParentId = files[i].parentId

\* the trashed folders of S and every trashed folder reached from them
\* downward through trashed folders
RECURSIVE TrashedSubtree(_, _)
TrashedSubtree(st, S) ==
  LET more == S \cup {st.folders[i].id : i \in {i \in DOMAIN st.folders :
                        st.folders[i].trashed /\ st.folders[i].parentId \in S}}
  IN IF more = S THEN S ELSE TrashedSubtree(st, more)

\* an item as restore leaves it
Restored(f, root) ==
  [f EXCEPT !.trashed = FALSE,
            !.parentId = IF f.originalParentId # NULL THEN f.originalParentId
                         ELSE IF f.parentId # NULL THEN f.parentId ELSE root,
            !.originalParentId = NULL]

\* C12: restore(S) changes exactly the trashed folders and files whose id is
\* in S and the trashed folders and files reached from a selected trashed
\* folder downward through trashed folders; each of them becomes non-trashed,
\* with parentId its originalParentId, else its parentId, else rootFolderId,
\* and with a null originalParentId; every other item is as it was.
C12_RestoreCascade ==
  [][handleRestoreSelected =>
      LET picked == {folders[i].id : i \in {i \in DOMAIN folders :
                        folders[i].trashed /\ folders[i].id \in selectedIds}}
          sub == TrashedSubtree(state, picked)
          hitFolder(f) == f.trashed /\ f.id \in sub
          hitFile(f) == f.trashed /\ (f.id \in selectedIds \/ f.parentId \in sub)
      IN /\ DOMAIN state'.folders = DOMAIN folders
         /\ DOMAIN state'.files = DOMAIN files
         /\ \A i \in DOMAIN folders :
              state'.folders[i] = IF hitFolder(folders[i])
                                  THEN Restored(folders[i], rootFolderId)
                                  ELSE folders[i]
         /\ \A i \in DOMAIN files :
              state'.files[i] = IF hitFile(files[i])
                                THEN Restored(files[i], rootFolderId)
                                ELSE files[i]
    ]_vars

\* restore has just run on folder 2 alone and has taken folder 3 and the file
\* in it out of the trash as well; the file went back to its originalParentId
C12_Witness ==
  /\ lastOp.op = "restore"
  /\ lastOp.sel = {2}
  /\ lastOp.folderIds = {2, 3} /\ lastOp.fileIds = {1}
  /\ \A i \in DOMAIN folders :
       folders[i].id \in {2, 3} => ~folders[i].trashed /\ folders[i].originalParentId = NULL
  /\ \A i \in DOMAIN files :
       ~files[i].trashed /\ files[i].originalParentId = NULL /\ files[i].parentId = 1

\* C13: emptyTrash leaves the local DriveState that permanentDelete leaves
\* when it is run on the selection of all trashed folder and file ids, and it
\* issues the same deleteFile / deleteFolder calls; with nothing in the trash
\* it does nothing (the handler returns, so no step is taken).
C13_EmptyTrashIsPermanentDelete ==
  [][handleEmptyTrash =>
      LET sel == {folders[i].id : i \in {i \in DOMAIN folders : folders[i].trashed}}
                 \cup {files[i].id : i \in {i \in DOMAIN files : files[i].trashed}}
          acc == deleteSets(state, sel)
      IN /\ state' = applyDelete(state, acc)
         /\ net' = Sent(deleteMsgs(acc.folderIds, acc.fileIds))
    ]_vars

\* C14: when the folder on view is one of the folders that moveToTrash puts
\* into the trash, selected itself or reached by the cascade, then afterwards
\* currentFolderId is rootFolderId and the section is my-drive.
C14_TrashResetsView ==
  [][handleMoveToTrashSelected =>
      ((\E i \in DOMAIN folders :
           /\ folders[i].id = currentFolderId
           /\ ~folders[i].trashed /\ state'.folders[i].trashed)
        => (currentFolderId' = rootFolderId /\ section' = "my-drive"))
    ]_vars

\* moveToTrash has just run on folder 2 alone while folder 3, below it, was on
\* view: the view is back at the root of my-drive
C14_Witness ==
  /\ lastOp.op = "moveToTrash"
  /\ lastOp.sel = {2}
  /\ 3 \in lastOp.folderIds
  /\ currentFolderId = rootFolderId
  /\ section = "my-drive"

\* the step flips field of the file fileId in the local DriveState, changes
\* nothing else in it, and the gateway's store is still as it was
FlipsLocally(fileId, field) ==
  /\ state' = [state EXCEPT !.files = [i \in DOMAIN files |->
                 IF files[i].id = fileId
                 THEN [files[i] EXCEPT ![field] = ~files[i][field]]
                 ELSE files[i]]]
  /\ server' = server

\* C15: toggleStar / toggleShare of a file flips that file's starred /
\* isShared field in the local DriveState before the remote update is served
\* and changes no other field or item; when the remote update fails a
\* full-state fetch is started, and when that fetch succeeds the local
\* DriveState is the snapshot it returned.
C15_ToggleOptimisticThenReload ==
  [][/\ \A id \in ItemIds : handleStarToggle(id) => FlipsLocally(id, "starred")
     /\ \A id \in ItemIds : handleShareToggle(id) => FlipsLocally(id, "isShared")
     /\ \A c \in calls : toggleFailed(c) =>
          /\ \E d \in calls' : d \notin calls /\ d.kind = "fetch" /\ d.phase = "sent"
          /\ state' = state
     /\ \A c \in calls : (c.kind = "fetch" /\ loadStateDone(c)) => state' = c.res
    ]_vars

\* the reload that a failed toggle started has just completed, and the flag
\* that the toggle had set locally is as the gateway has it: not set
C15_Witness ==
  /\ lastOp.op = "loaded"
  /\ issued > 0
  /\ \A c \in calls : c.kind # "toggle"
  /\ state = Snapshot(server)
  /\ \A i \in DOMAIN files : ~files[i].starred /\ ~files[i].isShared

\* C16: whenever a remote call of an optimistic operation has failed, a
\* full-state reload from the gateway is performed at some later time.
C16_FailureLeadsToReload ==
  (lastOp.op = "callFailed") ~> (lastOp.op = "loaded")

\* C17: createFolder and uploadFile change the local DriveState only when the
\* gateway has answered with the new item, which then carries an id of the
\* gateway's store and is appended; when the call fails the local DriveState
\* stays as it is and no reload is started.
C17_CreateAndUploadNotOptimistic ==
  [][/\ \A name \in PromptInputs : handleCreateFolder(name) => state' = state
     /\ \A fileList \in UploadLists : handleFilesInputChange(fileList) => state' = state
     /\ \A c \in calls : createFolderDone(c) =>
          /\ Answered(c) /\ Has(server.folders, c.res.id)
          /\ state' = [state EXCEPT !.folders = Append(@, c.res)]
     /\ \A c \in calls : uploadDone(c) =>
          /\ Answered(c) /\ Has(server.files, c.res.id)
          /\ state' = [state EXCEPT !.files = Append(@, c.res)]
     /\ \A c \in calls : createOrUploadFailed(c) =>
          /\ state' = state
          /\ calls' \subseteq calls
          /\ loading' = loading
    ]_vars

\* a createFolder or uploadFile call has just failed: the local collections
\* hold what they held, nothing is in flight and nothing is loading
C17_Witness ==
  /\ lastOp.op = "createFailed"
  /\ issued > 0
  /\ Ids(folders) = {1, 2, 3} /\ Ids(files) = {1}
  /\ calls = {}
  /\ ~loading

\* C18: createFolder with a name that is empty or only white space, and
\* moveToTrash, restore and permanentDelete with an empty selection, leave the
\* local DriveState, the selection, the section and currentFolderId as they
\* are and issue no call to the gateway (with an empty selection the three
\* handlers return at once, so they take no step).
C18_ValidationFailuresHaveNoEffect ==
  [][/\ \A name \in RejectedInputs :
          handleCreateFolder(name) =>
             UNCHANGED <<state, selectedIds, section, currentFolderId, calls, net, server>>
     /\ (handleMoveToTrashSelected \/ handleRestoreSelected
           \/ handlePermanentDeleteSelected) => selectedIds # {}
    ]_vars

\* createFolder has just rejected a name: nothing is in flight, and the
\* selection made before is still there
C18_Witness ==
  /\ lastOp.op = "rejected"
  /\ calls = {} /\ net = {} /\ issued = 0
  /\ selectedIds = {2, 3}
  /\ state.loaded

\* the non-empty directory prefixes of the paths of a list
Prefixes(list) ==
  UNION { {SubSeq(list[j], 1, k) : k \in 1..(Len(list[j]) - 1)} : j \in DOMAIN list }

Bijections(S, T) ==
  {f \in [S -> T] : /\ \A x, y \in S : f[x] = f[y] => x = y
                    /\ \A t \in T : \E x \in S : f[x] = t}

\* the folders made and the files made are the tree that list describes
\* below base
TreeBuilt(list, base, madeFolders, madeFiles) ==
  \E g \in Bijections(Prefixes(list), madeFolders) :
    /\ \A q \in Prefixes(list) :
         /\ Cardinality({i \in DOMAIN folders : folders[i].id = g[q]}) = 1
         /\ Find(folders, g[q]).name = q[Len(q)]
         /\ Find(folders, g[q]).parentId =
              (IF Len(q) = 1 THEN base ELSE g[SubSeq(q, 1, Len(q) - 1)])
    /\ \E h \in Bijections(DOMAIN list, madeFiles) :
         \A j \in DOMAIN list :
           /\ Cardinality({i \in DOMAIN files : files[i].id = h[j]}) = 1
           /\ Find(files, h[j]).name = list[j][Len(list[j])]
           /\ Find(files, h[j]).parentId =
                (IF Len(list[j]) = 1 THEN base ELSE g[DirOf(list[j])])

\* C19: when a folder upload has run to its end with every remote call
\* successful, it has created exactly one folder for every distinct non-empty
\* directory prefix of its paths, each below the folder of its parent prefix
\* (or below the base folder), and one file for every path, below the folder
\* of its directory.  project/notes/readme.txt and project/todo.txt make two
\* folders and two files.
C19_FolderTreeCreatedOncePerPrefix ==
  (lastOp.op = "treeDone" /\ state.loaded) =>
     \A base \in lastOp.sel :
        TreeBuilt(lastOp.input, base, lastOp.folderIds, lastOp.fileIds)

\* the upload of project/notes/readme.txt and project/todo.txt has just ended:
\* two folders and two files
C19_Witness ==
  /\ lastOp.op = "treeDone"
  /\ lastOp.input = << <<Project, Notes, Readme>>, <<Project, Todo>> >>
  /\ Cardinality(lastOp.folderIds) = 2
  /\ Cardinality(lastOp.fileIds) = 2
  /\ \E i \in DOMAIN files : files[i].name = Todo
  /\ calls = {}

\* a non-trashed folder project below the base folder with a folder notes in it
HasProject(i) ==
  /\ ~folders[i].trashed
  /\ folders[i].name = Project
  /\ folders[i].parentId = targetFolderId
  /\ \E j \in DOMAIN folders :
       folders[j].name = Notes /\ folders[j].parentId = folders[i].id

\* C20: a folder upload of project/todo.txt into a base folder that holds
\* project and project/notes from an earlier folder upload creates no folder:
\* the first call it issues uploads the file into the project folder that is
\* there.
C20_LaterUploadReusesFolders ==
  [][(/\ handleFolderInputChange(<< <<Project, Todo>> >>)
      /\ \E i \in DOMAIN folders : HasProject(i))
       => \E c \in calls' \ calls :
            /\ c.kind = "treeFile"
            /\ \E i \in DOMAIN folders : HasProject(i) /\ c.arg.parentId = folders[i].id
    ]_vars

----------------------------------------------------------------------------
\* C21: when a createFolder or uploadFile call of a folder upload fails, the
\* local DriveState stays as it is (what the upload has inserted so far is
\* still there, equal to what the gateway created, and nothing older is
\* touched), the handler ends without a further call, and every step of the
\* upload before the failure only appended to the folders and the files.
IsPrefix(a, b) == Len(a) <= Len(b) /\ SubSeq(b, 1, Len(a)) = a

TreeSteps == {"treeFolderCreated", "treeFileUploaded", "treeDone", "treeFailed"}

C21_PartialFolderUploadStays ==
  [][/\ \A c \in calls : treeFailed(c) =>
          /\ state' = state
          /\ calls' = calls \ {c}
          /\ server' = server
          /\ \A id \in c.arg.madeFolders :
               Has(state'.folders, id) /\
               Find(state'.folders, id) = Find(server.folders, id)
          /\ \A id \in c.arg.madeFiles :
               Has(state'.files, id) /\
               Find(state'.files, id) = Find(server.files, id)
     /\ (state.loaded /\ lastOp'.op \in TreeSteps) =>
          /\ IsPrefix(folders, state'.folders)
          /\ IsPrefix(files, state'.files)]_vars

\* the second file of a folder upload failed after a folder and a file of it
\* were inserted
C21_Witness ==
  /\ lastOp.op = "treeFailed"
  /\ lastOp.folderIds # {} /\ lastOp.folderIds \subseteq Ids(folders)
  /\ lastOp.fileIds # {} /\ lastOp.fileIds \subseteq Ids(files)
  /\ Len(files) < Len(lastOp.input)
  /\ calls = {}

----------------------------------------------------------------------------
\* C22: select-all replaces the selection by exactly the ids of the folders
\* and files on view for the section, the folder on view and the search;
\* in starred with no search these are the ids of the starred files that are
\* not in the trash.
Matches(name) ==
  Trim(search) = <<>> \/
  \E i \in 1..Len(name) : \E j \in i..Len(name) :
     toLowerCase(SubSeq(name, i, j)) = toLowerCase(Trim(search))

OnView(item, isFolder) ==
  CASE section = "my-drive" -> ~item.trashed /\ item.parentId = currentFolderId
    [] section = "trash" -> item.trashed
    [] section = "starred" -> ~isFolder /\ ~item.trashed /\ item.starred
    [] section = "shared" -> ~isFolder /\ ~item.trashed /\ item.isShared

C22_SelectAllIsTheView ==
  [][selectAll =>
       /\ selectedIds' =
            {folders[i].id : i \in {k \in DOMAIN folders : OnView(folders[k], TRUE)}}
            \cup
            {files[i].id : i \in {k \in DOMAIN files :
                                    OnView(files[k], FALSE) /\ Matches(files[k].name)}}
       /\ (section = "starred" /\ Trim(search) = <<>>) =>
            selectedIds' = {files[i].id : i \in {k \in DOMAIN files :
                                files[k].starred /\ ~files[k].trashed}}]_vars

\* in starred, with no search, select-all has replaced a selection made
\* under a search by the starred files, and some file is not starred
C22_Witness ==
  /\ lastOp.op = "selectAll"
  /\ section = "starred" /\ Trim(search) = <<>>
  /\ lastOp.sel # {} /\ lastOp.sel # selectedIds
  /\ selectedIds # {}
  /\ \E i \in DOMAIN files : ~files[i].starred

----------------------------------------------------------------------------
\* C23: every step that changes the section or the folder on view ends with
\* an empty selection, and a step that changes only the search text or the
\* sort order leaves the selection as it was.
C23_ViewChangeClearsSelection ==
  [][/\ (section' # section \/ currentFolderId' # currentFolderId) =>
          selectedIds' = {}
     /\ (viewVars' # viewVars /\ section' = section /\
         currentFolderId' = currentFolderId) =>
          selectedIds' = selectedIds]_vars

----------------------------------------------------------------------------
\* C24: sorted by name, the visible files are ordered by their lower-cased
\* names, ascending or descending, and files whose lower-cased names are
\* equal keep the order they have in state.files in both directions; the
\* names b, A, a come out as A, a, b ascending and as b, A, a descending.
NamesOf(list) == [i \in DOMAIN list |-> list[i].name]

\* the place of a file in state.files
PlaceOf(f) == CHOOSE i \in DOMAIN files : files[i] = f

C24_NameSortStable ==
  (state.loaded /\ sortBy = "name") =>
    LET input == searchFilter(sectionFiles)
        out == visibleFiles
        key(f) == toLowerCase(f.name)
    IN /\ Len(out) = Len(input)
       /\ {out[i] : i \in DOMAIN out} = {input[i] : i \in DOMAIN input}
       /\ \A i \in DOMAIN out : \A j \in DOMAIN out : i < j =>
            /\ sortDir = "asc" => ~StrLess(key(out[j]), key(out[i]))
            /\ sortDir = "desc" => ~StrLess(key(out[i]), key(out[j]))
            /\ key(out[i]) = key(out[j]) => PlaceOf(out[i]) < PlaceOf(out[j])
       /\ NamesOf(input) = << <<"b">>, <<"A">>, <<"a">> >> =>
            NamesOf(out) = IF sortDir = "asc"
                           THEN << <<"A">>, <<"a">>, <<"b">> >>
                           ELSE << <<"b">>, <<"A">>, <<"a">> >>

\* the files b, A, a are on view, sorted by name descending
C24_Witness ==
  /\ lastOp.op = "sort"
  /\ sortBy = "name" /\ sortDir = "desc"
  /\ NamesOf(searchFilter(sectionFiles)) = << <<"b">>, <<"A">>, <<"a">> >>
  /\ NamesOf(visibleFiles) = << <<"b">>, <<"A">>, <<"a">> >>

----------------------------------------------------------------------------
\* C25: what is drawn lists every visible folder before every visible file,
\* and under the sort by name the visible folders stand in the order of
\* their lower-cased names, ascending or descending as the files do.
drawn ==
  [i \in 1..(Len(visibleFolders) + Len(visibleFiles)) |->
     IF i <= Len(visibleFolders)
     THEN [isFolder |-> TRUE, id |-> visibleFolders[i].id,
           name |-> visibleFolders[i].name]
     ELSE [isFolder |-> FALSE, id |-> visibleFiles[i - Len(visibleFolders)].id,
           name |-> visibleFiles[i - Len(visibleFolders)].name]]

C25_FoldersFirstAndSorted ==
  state.loaded =>
    \A i \in DOMAIN drawn : \A j \in DOMAIN drawn : i < j =>
       /\ drawn[j].isFolder => drawn[i].isFolder
       /\ (sortBy = "name" /\ drawn[i].isFolder = drawn[j].isFolder) =>
            IF sortDir = "asc"
            THEN ~StrLess(toLowerCase(drawn[j].name), toLowerCase(drawn[i].name))
            ELSE ~StrLess(toLowerCase(drawn[i].name), toLowerCase(drawn[j].name))

----------------------------------------------------------------------------
\* C26: with an empty search, my-drive shows exactly the non-trashed folders
\* and files whose parentId is the folder on view; starred and shared show
\* no folder and exactly the non-trashed files with the flag; trash shows
\* exactly the trashed folders and files, whatever the folder on view is.
SetOf(list) == {list[i] : i \in DOMAIN list}

C26_SectionsShowTheirItems ==
  (state.loaded /\ search = <<>>) =>
    LET allFolders == SetOf(folders)
        allFiles == SetOf(files)
        shownFolders == SetOf(visibleFolders)
        shownFiles == SetOf(visibleFiles)
    IN /\ section = "my-drive" =>
            /\ shownFolders = {f \in allFolders :
                                 ~f.trashed /\ f.parentId = currentFolderId}
            /\ shownFiles = {f \in allFiles :
                               ~f.trashed /\ f.parentId = currentFolderId}
       /\ section = "starred" =>
            /\ shownFolders = {}
            /\ shownFiles = {f \in allFiles : ~f.trashed /\ f.starred}
       /\ section = "shared" =>
            /\ shownFolders = {}
            /\ shownFiles = {f \in allFiles : ~f.trashed /\ f.isShared}
       /\ section = "trash" =>
            /\ shownFolders = {f \in allFolders : f.trashed}
            /\ shownFiles = {f \in allFiles : f.trashed}
       /\ Len(visibleFolders) = Cardinality(shownFolders)
       /\ Len(visibleFiles) = Cardinality(shownFiles)

\* the trash is on view with a folder and a file in it, neither of them
\* under the folder that was on view, and a starred file is in the trash
C26_Witness ==
  /\ state.loaded /\ search = <<>>
  /\ section = "trash"
  /\ visibleFolders # <<>> /\ visibleFiles # <<>>
  /\ \A i \in DOMAIN visibleFolders : visibleFolders[i].parentId # currentFolderId
  /\ \A i \in DOMAIN visibleFiles :
       visibleFiles[i].parentId # currentFolderId /\ visibleFiles[i].starred

----------------------------------------------------------------------------
\* C27: the cascade collections of moveToTrash, restore and permanentDelete
\* come to an end and call their recursive helper at most once per folder.
Once(list) ==
  \A i \in DOMAIN list : \A j \in DOMAIN list : list[i] = list[j] => i = j

C27_EachFolderExpandedOnce ==
  [][/\ handleMoveToTrashSelected => Once(trashSets(state, selectedIds).expanded)
     /\ handleRestoreSelected => Once(restoreSets(state, selectedIds).expanded)
     /\ handlePermanentDeleteSelected =>
          Once(deleteSets(state, selectedIds).expanded)]_vars

----------------------------------------------------------------------------
\* C28: in my-drive the breadcrumb loop comes to an end; its chain ends with
\* the folder on view, every element is the non-trashed folder that the
\* parentId of the next element refers to, and the parentId of the first
\* element is null or refers to no non-trashed folder.
C28_BreadcrumbTerminates ==
  (state.loaded /\ section = "my-drive") =>
    LET chain == breadcrumb.chain IN
    /\ ~breadcrumb.diverges
    /\ Has(folders, currentFolderId) =>
         /\ chain # <<>>
         /\ chain[Len(chain)] = Find(folders, currentFolderId)
         /\ \A i \in 1..(Len(chain) - 1) :
              /\ ~chain[i].trashed
              /\ chain[i].id = chain[i + 1].parentId
              /\ \E k \in DOMAIN folders : folders[k] = chain[i]
         /\ \/ chain[1].parentId = NULL
            \/ \A k \in DOMAIN folders :
                 folders[k].id = chain[1].parentId => folders[k].trashed

----------------------------------------------------------------------------
\* C29: moveToTrash sends one update for every folder and every file whose
\* trashed flag it has set locally and for nothing else, and each update
\* carries trashed = true and the originalParentId written locally.
UpdatesFor(msgs, kind, id) == {m \in msgs : m.kind = kind /\ m.id = id}

SendsFor(msgs, kind, before, after) ==
  /\ \A i \in DOMAIN before :
       LET ms == UpdatesFor(msgs, kind, before[i].id) IN
       IF ~before[i].trashed /\ after[i].trashed
       THEN /\ Cardinality(ms) = 1
            /\ \A m \in ms : /\ m.patch.trashed = TRUE
                             /\ m.patch.originalParentId = after[i].originalParentId
       ELSE ms = {}
  /\ \A m \in msgs : m.kind = kind => \E i \in DOMAIN before : before[i].id = m.id

C29_TrashSendsOneUpdatePerItem ==
  [][handleMoveToTrashSelected =>
       LET msgs == net' \ net IN
       /\ Len(state'.folders) = Len(folders) /\ Len(state'.files) = Len(files)
       /\ SendsFor(msgs, "updateFolder", folders, state'.folders)
       /\ SendsFor(msgs, "updateFile", files, state'.files)
       /\ \A m \in msgs : m.kind \in {"updateFolder", "updateFile"}]_vars

\* moveToTrash has trashed a folder and, by the cascade, a file; an item
\* that kept an older originalParentId was sent with that one, and a folder
\* it did not touch got no update
C29_Witness ==
  /\ lastOp.op = "moveToTrash"
  /\ \E m \in net : m.kind = "updateFolder"
  /\ \E m \in net : m.kind = "updateFile" /\ m.id \notin lastOp.sel
  /\ \E m \in net : \E i \in DOMAIN folders :
       /\ m.kind = "updateFolder" /\ folders[i].id = m.id
       /\ m.patch.originalParentId # folders[i].parentId
  /\ \E i \in DOMAIN folders :
       ~folders[i].trashed /\ UpdatesFor(net, "updateFolder", folders[i].id) = {}

----------------------------------------------------------------------------
\* C30: when a folder and a file have the same id and one of them is ticked
\* on view, moveToTrash, restore and permanentDelete leave the item of the
\* other kind as it is, unless it lies in the cascade of the ticked folders.
tickedFolders == Ids(visibleFolders) \cap selectedIds
tickedFiles == Ids(visibleFiles) \cap selectedIds

KeepsOtherKind(sub) ==
  /\ \A i \in DOMAIN folders :
       (folders[i].id \in tickedFiles /\ folders[i].id \notin sub) =>
          \E j \in DOMAIN state'.folders : state'.folders[j] = folders[i]
  /\ \A i \in DOMAIN files :
       (files[i].id \in tickedFolders /\ files[i].id \notin tickedFiles
        /\ files[i].parentId \notin sub) =>
          \E j \in DOMAIN state'.files : state'.files[j] = files[i]

C30_SameIdOtherKindUntouched ==
  [][/\ handleMoveToTrashSelected =>
          KeepsOtherKind(LiveSubtree(state, tickedFolders))
     /\ handleRestoreSelected =>
          KeepsOtherKind(TrashedSubtree(state, tickedFolders))
     /\ handlePermanentDeleteSelected =>
          KeepsOtherKind(Subtree(state, tickedFolders))]_vars

----------------------------------------------------------------------------
\* C31: from a loaded drive with nothing in the trash, every trashed item
\* that has an originalParentId has it equal to its parentId, and no step
\* changes the parentId of an item that is still there and whose parentId
\* was not null.
OriginIsParent(list) ==
  \A i \in DOMAIN list :
     (list[i].trashed /\ list[i].originalParentId # NULL) =>
        list[i].originalParentId = list[i].parentId

ParentKept(before, after) ==
  \A i \in DOMAIN before : \A j \in DOMAIN after :
     (before[i].parentId # NULL /\ after[j].id = before[i].id) =>
        after[j].parentId = before[i].parentId

C31_NoItemEverMoves ==
  [][state.loaded =>
       /\ OriginIsParent(folders) /\ OriginIsParent(files)
       /\ OriginIsParent(state'.folders) /\ OriginIsParent(state'.files)
       /\ ParentKept(folders, state'.folders)
       /\ ParentKept(files, state'.files)]_vars

\* restore has put back a folder and a file below the root, each under the
\* parent it had
C31_Witness ==
  /\ lastOp.op = "restore"
  /\ \E i \in DOMAIN folders :
       /\ folders[i].id \in lastOp.folderIds
       /\ folders[i].parentId \notin {NULL, rootFolderId}
       /\ ~folders[i].trashed
  /\ \E i \in DOMAIN files :
       /\ files[i].id \in lastOp.fileIds
       /\ files[i].parentId \notin {NULL, rootFolderId}
       /\ ~files[i].trashed

----------------------------------------------------------------------------
\* C32: once the drive is loaded, whenever the section is my-drive the
\* folder on view is a folder of the local collection that is not trashed.
C32_FolderOnViewIsLive ==
  (state.loaded /\ section = "my-drive") =>
    \E i \in DOMAIN folders :
       folders[i].id = currentFolderId /\ ~folders[i].trashed

----------------------------------------------------------------------------
\* C33: a star or share toggle, its failure and the reload that follows
\* the failure leave the section and the folder on view as they are.
KeepsView == section' = section /\ currentFolderId' = currentFolderId

C33_FailedToggleKeepsView ==
  [][/\ \A id \in ItemIds :
          (handleStarToggle(id) \/ handleShareToggle(id)) => KeepsView
     /\ \A c \in calls : toggleFailed(c) => KeepsView
     /\ \A c \in calls : (state.loaded /\ loadStateDone(c)) => KeepsView]_vars

----------------------------------------------------------------------------
\* C34: when no remote call fails and none is in flight any more, every
\* folder and file of the local model has the trashed, parentId and
\* originalParentId (and a file the starred and isShared) value that the
\* gateway holds for it.
SameAsGateway(local, remote, fields) ==
  \A i \in DOMAIN local :
     /\ Has(remote, local[i].id)
     /\ \A k \in fields : Find(remote, local[i].id)[k] = local[i][k]

C34_GatewayAgreesWhenQuiet ==
  (state.loaded /\ ~loading /\ calls = {} /\ net = {}) =>
    /\ SameAsGateway(folders, server.folders,
                     {"trashed", "parentId", "originalParentId"})
    /\ SameAsGateway(files, server.files,
                     {"trashed", "parentId", "originalParentId",
                      "starred", "isShared"})

====
